---- MODULE Spec2Model ----
(***************************************************************************)
(* The two report pipelines of scripts/: the report enhancer               *)
(* (enhance-failure-report.py) and the HTML renderer                       *)
(* (generate-html-summary.py), run one after the other over the files of   *)
(* one working directory.                                                  *)
(*                                                                         *)
(* JSON objects are functions from their keys (an absent key is outside    *)
(* the DOMAIN), JSON arrays are sequences, JSON strings are strings.  A    *)
(* Python dict whose iteration order is observable (failurePatterns and    *)
(* the other derived maps) is a sequence of [key, value] entries in        *)
(* insertion order.                                                        *)
(***************************************************************************)
EXTENDS Integers, Sequences, FiniteSets, TLC

(***************************************************************************)
(* Python str: lower() and the `in` substring test.                        *)
(***************************************************************************)
UpperCase == "ABCDEFGHIJKLMNOPQRSTUVWXYZ"

LowerCase == "abcdefghijklmnopqrstuvwxyz"

\* str.lower() and str.upper() on one character.
ToLower ==
    [c \in {SubSeq(UpperCase, i, i) : i \in 1..Len(UpperCase)} |->
        LET i == CHOOSE j \in 1..Len(UpperCase) : SubSeq(UpperCase, j, j) = c
        IN  SubSeq(LowerCase, i, i)]

ToUpper ==
    [c \in {SubSeq(LowerCase, i, i) : i \in 1..Len(LowerCase)} |->
        LET i == CHOOSE j \in 1..Len(LowerCase) : SubSeq(LowerCase, j, j) = c
        IN  SubSeq(UpperCase, i, i)]

lower_char(c) == IF c \in DOMAIN ToLower THEN ToLower[c] ELSE c

upper_char(c) == IF c \in DOMAIN ToUpper THEN ToUpper[c] ELSE c

RECURSIVE lower(_)
lower(s) ==
    IF Len(s) = 0 THEN ""
    ELSE lower_char(SubSeq(s, 1, 1)) \o lower(SubSeq(s, 2, Len(s)))

\* Python's `sub in s` on strings.
Contains(sub, s) ==
    \E i \in 0..(Len(s) - Len(sub)) : SubSeq(s, i + 1, i + Len(sub)) = sub

(***************************************************************************)
(* Python dict: d.get(k, default), d[k] = v, and the ordered maps.         *)
(***************************************************************************)
Has(d, k) == k \in DOMAIN d

Get(d, k, default) == IF k \in DOMAIN d THEN d[k] ELSE default

Put(d, k, v) == [x \in (DOMAIN d) \cup {k} |-> IF x = k THEN v ELSE d[x]]

\* The keys of an ordered map, in insertion order.
Keys(od) == [i \in 1..Len(od) |-> od[i].key]

KeySet(od) == {od[i].key : i \in 1..Len(od)}

\* od.get(k, default) on an ordered map.
OGet(od, k, default) ==
    IF \E i \in 1..Len(od) : od[i].key = k
    THEN od[CHOOSE i \in 1..Len(od) : od[i].key = k].value
    ELSE default

(***************************************************************************)
(* The input documents: what a test run may have left in the report file.  *)
(***************************************************************************)
\* Features per report, enhancer runs per session, and the largest
\* failedScenarios count of a summary.
MaxFeatures == 2

MaxRuns == 2

MaxFailed == 6

Steps ==
    << [keyword |-> "Given", text |-> "a booking exists", status |-> "PASSED"],
       [keyword |-> "When", text |-> "the booking is read", status |-> "FAILED",
        errorMessage |-> "Read timed out"],
       [keyword |-> "Then", text |-> "the booking is returned"] >>

\* Message with a timeout and a data-validation keyword; every optional field.
TimeoutInvalid ==
    [ scenarioName |-> "Read booking", line |-> 12,
      errorType |-> "IOException", errorMessage |-> "Read timeout: invalid id",
      stackTrace |-> "at BookingSteps.read(BookingSteps.java:31)",
      steps |-> Steps, tags |-> <<"@smoke", "@booking">>,
      duration |-> [number |-> 1500] ]

\* The timeout keyword in the error type only; no message.
TimeoutByType ==
    [ scenarioName |-> "List bookings", line |-> 20,
      errorType |-> "SocketTimeoutException", duration |-> [number |-> 90000] ]

Connection503 ==
    [ scenarioName |-> "Ping", line |-> 5,
      errorType |-> "ConnectException",
      errorMessage |-> "Connection timed out after 503", tags |-> <<"@health">> ]

ExpectedFalse ==
    [ scenarioName |-> "Delete booking", line |-> 33,
      errorType |-> "AssertionError",
      errorMessage |-> "Expected true but got false", steps |-> <<>> ]

Unauthorized ==
    [ scenarioName |-> "Create token", line |-> 8,
      errorMessage |-> "401 Unauthorized", duration |-> [number |-> 0] ]

InvalidId ==
    [ scenarioName |-> "Update booking", line |-> 41,
      errorType |-> "AssertionError", errorMessage |-> "Invalid booking id" ]

NullPointer ==
    [ scenarioName |-> "Patch booking", line |-> 47,
      errorType |-> "NullPointerException", stackTrace |-> "" ]

\* Only the required fields.
Bare == [ scenarioName |-> "Health check", line |-> 3 ]

\* An assertion by its type, a transient failure by its message.
AssertionByType ==
    [ scenarioName |-> "Read booking", line |-> 12,
      errorType |-> "AssertionError", errorMessage |-> "Service Unavailable" ]

NoScenarioName == [ line |-> 9, errorMessage |-> "Network unreachable" ]

StringDuration ==
    [ scenarioName |-> "Slow scenario", line |-> 60,
      errorMessage |-> "boom", duration |-> [string |-> "1.5s"] ]

FeaturePool ==
    { [ featureName |-> "Empty", failures |-> <<>> ],
      [ featureName |-> "Passing" ],
      [ featureName |-> "Timeouts", failures |-> <<TimeoutInvalid, TimeoutByType>> ],
      [ featureName |-> "Network", failures |-> <<Connection503, TimeoutInvalid>> ],
      [ featureName |-> "Login", failures |-> <<ExpectedFalse, Unauthorized>> ],
      [ featureName |-> "Data", failures |-> <<InvalidId, NullPointer, Bare>> ],
      [ featureName |-> "Misc", failures |-> <<AssertionByType>> ],
      [ featureName |-> "Broken", failures |-> <<NoScenarioName>> ],
      [ featureName |-> "Slow", failures |-> <<StringDuration>> ],
      [ failures |-> <<Bare>> ] }

\* Every failure record of the pool.
PoolFailures ==
    UNION { { Get(f, "failures", <<>>)[i] : i \in 1..Len(Get(f, "failures", <<>>)) } :
            f \in FeaturePool }

FeatureLists ==
    UNION { [1..n -> FeaturePool] : n \in 0..MaxFeatures }

TotalScenarios == {10}

\* An optional field is the empty list (absent) or a list of its one value.
Summaries ==
    { <<>>,
      << [failedScenarios |-> 2] >>,
      << [failedScenarios |-> 2, totalScenarios |-> 0] >>,
      << [totalScenarios |-> 10, passedScenarios |-> 10] >> }
    \cup
    { << [ totalScenarios |-> t, passedScenarios |-> t - f,
           failedScenarios |-> f, skippedScenarios |-> 0 ] >> :
        f \in 0..MaxFailed, t \in TotalScenarios }

Metadata ==
    [ buildNumber |-> "42", environment |-> "ci", duration |-> [number |-> 5400000] ]

MkReport(features, summary) ==
    LET base == [ metadata |-> Metadata, features |-> features ]
    IN  IF Len(summary) = 0 THEN base ELSE Put(base, "summary", summary[1])

\* Documents that already carry derived fields of some earlier enhancement.
StaleReports ==
    { [ features |-> <<>>,
        failurePatternSummary |-> << [key |-> "flaky_test_failures", value |-> 2] >>,
        actionableInsights |-> << [ message |-> "Old insight" ],
                                  [ type |-> "NOTE", severity |-> "Low",
                                    message |-> "m", recommendation |-> "r" ] >> ],
      [ summary |-> [ failedScenarios |-> 1, totalScenarios |-> 10 ],
        actionableInsights |-> << [ type |-> "SUCCESS", severity |-> "INFO",
                                    message |-> "All tests passed successfully. No action required.",
                                    recommendation |-> "Monitor for consistency in future runs." ] >>,
        serenityArtifacts |-> [ screenshotsAvailable |-> FALSE ] ],
      [ features |-> << [ featureName |-> "Login",
                          failures |-> <<ExpectedFalse, Unauthorized>> ] >>,
        summary |-> [ failedScenarios |-> 2, totalScenarios |-> 4 ],
        buildUrl |-> "https://ci.example/job/42" ] }

Reports ==
    { MkReport(fs, sm) : fs \in FeatureLists, sm \in Summaries }
    \cup { [ metadata |-> [ environment |-> "ci" ] ] }
    \cup StaleReports

(***************************************************************************)
(* The traversal every enhancer step and the renderer share:               *)
(*   for feature in report.get('features', []):                            *)
(*       for failure in feature.get('failures', []):                       *)
(***************************************************************************)
RECURSIVE Traverse(_)
Traverse(features) ==
    IF Len(features) = 0 THEN <<>>
    ELSE LET feature == Head(features)
             fl == Get(feature, "failures", <<>>)
         IN  [i \in 1..Len(fl) |-> [feature |-> feature, failure |-> fl[i]]]
             \o Traverse(Tail(features))

Occurrences(report) == Traverse(Get(report, "features", <<>>))

\* RaisesKeyError with failure['errorMessage'] subscripted as well.
RaisesKeyError_message_subscripted(report) ==
    \E i \in 1..Len(Occurrences(report)) :
        LET o == Occurrences(report)[i]
        IN  \/ ~Has(o.feature, "featureName")
            \/ ~Has(o.failure, "scenarioName")
            \/ ~Has(o.failure, "line")
            \/ ~Has(o.failure, "errorMessage")

\* feature['featureName'], failure['scenarioName'] and failure['line'] are
\* subscripted, not .get(): a missing one raises KeyError.
RaisesKeyError(report) ==
    \E i \in 1..Len(Occurrences(report)) :
        LET o == Occurrences(report)[i]
        IN  \/ ~Has(o.feature, "featureName")
            \/ ~Has(o.failure, "scenarioName")
            \/ ~Has(o.failure, "line")

(***************************************************************************)
(* FailureReportEnhancer._add_failure_patterns                             *)
(***************************************************************************)
PatternKeys ==
    << "timeout_failures", "assertion_failures", "connection_failures",
       "authentication_failures", "data_validation_failures",
       "null_pointer_failures", "other_failures" >>

\* first_match with the data-validation test moved to the head of the chain.
first_match_validation_first(failure) ==
    LET error_msg  == lower(Get(failure, "errorMessage", ""))
        error_type == lower(Get(failure, "errorType", ""))
    IN  IF Contains("validation", error_msg) \/ Contains("invalid", error_msg)
        THEN "data_validation_failures"
        ELSE IF Contains("timeout", error_msg) \/ Contains("timeout", error_type)
        THEN "timeout_failures"
        ELSE IF Contains("assertion", error_msg) \/ Contains("expected", error_msg)
        THEN "assertion_failures"
        ELSE IF Contains("connection", error_msg) \/ Contains("unable to connect", error_msg)
        THEN "connection_failures"
        ELSE IF \/ Contains("auth", error_msg)
                \/ Contains("unauthorized", error_msg)
                \/ Contains("401", error_msg)
        THEN "authentication_failures"
        ELSE IF Contains("nullpointer", error_type) \/ Contains("null", error_msg)
        THEN "null_pointer_failures"
        ELSE "other_failures"

\* first_match with the assertion test reading the error type as well.
first_match_assertion_by_type(failure) ==
    LET error_msg  == lower(Get(failure, "errorMessage", ""))
        error_type == lower(Get(failure, "errorType", ""))
    IN  IF Contains("timeout", error_msg) \/ Contains("timeout", error_type)
        THEN "timeout_failures"
        ELSE IF \/ Contains("assertion", error_msg) \/ Contains("expected", error_msg)
                \/ Contains("assertion", error_type) \/ Contains("expected", error_type)
        THEN "assertion_failures"
        ELSE IF Contains("connection", error_msg) \/ Contains("unable to connect", error_msg)
        THEN "connection_failures"
        ELSE IF \/ Contains("auth", error_msg)
                \/ Contains("unauthorized", error_msg)
                \/ Contains("401", error_msg)
        THEN "authentication_failures"
        ELSE IF Contains("validation", error_msg) \/ Contains("invalid", error_msg)
        THEN "data_validation_failures"
        ELSE IF Contains("nullpointer", error_type) \/ Contains("null", error_msg)
        THEN "null_pointer_failures"
        ELSE "other_failures"

\* The if/elif chain that picks the list a failure is appended to.
first_match(failure) ==
    LET error_msg  == lower(Get(failure, "errorMessage", ""))
        error_type == lower(Get(failure, "errorType", ""))
    IN  IF Contains("timeout", error_msg) \/ Contains("timeout", error_type)
        THEN "timeout_failures"
        ELSE IF Contains("assertion", error_msg) \/ Contains("expected", error_msg)
        THEN "assertion_failures"
        ELSE IF Contains("connection", error_msg) \/ Contains("unable to connect", error_msg)
        THEN "connection_failures"
        ELSE IF \/ Contains("auth", error_msg)
                \/ Contains("unauthorized", error_msg)
                \/ Contains("401", error_msg)
        THEN "authentication_failures"
        ELSE IF Contains("validation", error_msg) \/ Contains("invalid", error_msg)
        THEN "data_validation_failures"
        ELSE IF Contains("nullpointer", error_type) \/ Contains("null", error_msg)
        THEN "null_pointer_failures"
        ELSE "other_failures"

\* first_match, looked up for the failures of the pool (a constant is
\* evaluated once) and computed for any other.
CategoryOfPool == [f \in PoolFailures |-> first_match(f)]

pattern_category(failure) ==
    IF failure \in PoolFailures THEN CategoryOfPool[failure] ELSE first_match(failure)

failure_info(o) ==
    [ feature  |-> o.feature["featureName"],
      scenario |-> o.failure["scenarioName"],
      line     |-> o.failure["line"],
      error    |-> Get(o.failure, "errorMessage", "Unknown error") ]

\* collect_patterns starting from the lists the report already carries
\* (patterns = report.setdefault('failurePatterns', {...})).
collect_patterns_onto_existing(report) ==
    LET occ == Occurrences(report)
        existing == Get(report, "failurePatterns", <<>>)
        category == [i \in 1..Len(occ) |-> pattern_category(occ[i].failure)]
        info == [i \in 1..Len(occ) |-> failure_info(occ[i])]
        RECURSIVE appended(_, _)
        appended(k, i) ==
            IF i > Len(occ) THEN <<>>
            ELSE (IF category[i] = k THEN << info[i] >> ELSE <<>>) \o appended(k, i + 1)
    IN  [i \in 1..Len(PatternKeys) |->
            [ key |-> PatternKeys[i],
              value |-> OGet(existing, PatternKeys[i], <<>>) \o appended(PatternKeys[i], 1) ]]

\* patterns after the loop: every key, with the failures appended to it.
collect_patterns(report) ==
    LET occ == Occurrences(report)
        category == [i \in 1..Len(occ) |-> pattern_category(occ[i].failure)]
        info == [i \in 1..Len(occ) |-> failure_info(occ[i])]
        RECURSIVE appended(_, _)
        appended(k, i) ==
            IF i > Len(occ) THEN <<>>
            ELSE (IF category[i] = k THEN << info[i] >> ELSE <<>>) \o appended(k, i + 1)
    IN  [i \in 1..Len(PatternKeys) |->
            [ key |-> PatternKeys[i], value |-> appended(PatternKeys[i], 1) ]]

\* remove_empty without the filter.
remove_empty_keeps_all(patterns) == patterns

\* patterns = {k: v for k, v in patterns.items() if v}
remove_empty(patterns) ==
    LET NonEmpty(e) == Len(e.value) > 0
    IN  SelectSeq(patterns, NonEmpty)

count_values(od) ==
    [i \in 1..Len(od) |-> [key |-> od[i].key, value |-> Len(od[i].value)]]

_add_failure_patterns(report) ==
    LET patterns == remove_empty(collect_patterns(report))
    IN  Put(Put(report, "failurePatterns", patterns),
            "failurePatternSummary", count_values(patterns))

(***************************************************************************)
(* FailureReportEnhancer._categorize_errors                                *)
(***************************************************************************)
RECURSIVE first_seen(_, _)
first_seen(types, seen) ==
    IF Len(types) = 0 THEN <<>>
    ELSE IF Head(types) \in seen THEN first_seen(Tail(types), seen)
    ELSE <<Head(types)>> \o first_seen(Tail(types), seen \cup {Head(types)})

\* error_type_of with another default label.
error_type_of_default_unknown(failure) == Get(failure, "errorType", "Unknown")

error_type_of(failure) == Get(failure, "errorType", "UnknownError")

_categorize_errors(report) ==
    LET occ == Occurrences(report)
        types == [i \in 1..Len(occ) |-> error_type_of(occ[i].failure)]
        keys == first_seen(types, {})
        Of(t) ==
            LET Test(o) == error_type_of(o.failure) = t
                members == SelectSeq(occ, Test)
            IN  [j \in 1..Len(members) |->
                    [ feature  |-> members[j].feature["featureName"],
                      scenario |-> members[j].failure["scenarioName"],
                      message  |-> Get(members[j].failure, "errorMessage", "") ]]
        error_categories == [i \in 1..Len(keys) |-> [key |-> keys[i], value |-> Of(keys[i])]]
    IN  Put(Put(report, "errorCategories", error_categories),
            "errorCategorySummary", count_values(error_categories))

(***************************************************************************)
(* FailureReportEnhancer._add_actionable_insights                          *)
(***************************************************************************)
EmptyDict == <<>>

\* rate_above with >= for >.
rate_at_or_above(failed_count, total, pct) == failed_count * 100 >= pct * total

\* failure_rate > pct, where failure_rate = (failed_count / total) * 100 and
\* total > 0.  The comparison is made on the exact quotient; the double the
\* code computes compares the same way for every count below 2^53 / 100
\* whose rate is not within one ulp of pct.
rate_above(failed_count, total, pct) == failed_count * 100 > pct * total

\* f'{failure_rate:.1f}': one decimal, ties to even.
format_rate(failed_count, total) ==
    LET num == failed_count * 1000
        q == num \div total
        r == num % total
        tenths == IF 2 * r > total THEN q + 1
                  ELSE IF 2 * r < total THEN q
                  ELSE IF q % 2 = 0 THEN q ELSE q + 1
    IN  ToString(tenths \div 10) \o "." \o ToString(tenths % 10)

rate_message(failed_count, total) ==
    format_rate(failed_count, total) \o "% of tests failed ("
        \o ToString(failed_count) \o "/" \o ToString(total) \o ")"

success_insight ==
    [ type |-> "SUCCESS", severity |-> "INFO",
      message |-> "All tests passed successfully. No action required.",
      recommendation |-> "Monitor for consistency in future runs." ]

\* rate_insights with a zero or absent total replaced by 1
\* (total = summary.get('totalScenarios', 0) or 1) and no guard.
rate_insights_total_or_one(summary, failed_count) ==
    LET given == Get(summary, "totalScenarios", 0)
        total == IF given = 0 THEN 1 ELSE given
    IN  IF rate_above(failed_count, total, 50)
        THEN << [ type |-> "HIGH_FAILURE_RATE", severity |-> "CRITICAL",
                  message |-> rate_message(failed_count, total),
                  recommendation |-> "Investigate environment issues or recent code changes. This indicates systemic problems." ] >>
        ELSE IF rate_above(failed_count, total, 20)
        THEN << [ type |-> "MODERATE_FAILURE_RATE", severity |-> "HIGH",
                  message |-> rate_message(failed_count, total),
                  recommendation |-> "Review failed scenarios for common patterns." ] >>
        ELSE <<>>

\* The failure-rate branch: at most one insight.
rate_insights(summary, failed_count) ==
    LET total == Get(summary, "totalScenarios", 0)
    IN  IF total > 0
        THEN IF rate_above(failed_count, total, 50)
             THEN << [ type |-> "HIGH_FAILURE_RATE", severity |-> "CRITICAL",
                       message |-> rate_message(failed_count, total),
                       recommendation |-> "Investigate environment issues or recent code changes. This indicates systemic problems." ] >>
             ELSE IF rate_above(failed_count, total, 20)
             THEN << [ type |-> "MODERATE_FAILURE_RATE", severity |-> "HIGH",
                       message |-> rate_message(failed_count, total),
                       recommendation |-> "Review failed scenarios for common patterns." ] >>
             ELSE <<>>
        ELSE <<>>

\* pattern_insights with the timeout threshold at two (>= 2 for > 2).
pattern_insights_timeout_at_two(patterns) ==
    (IF OGet(patterns, "timeout_failures", 0) >= 2
     THEN << [ type |-> "TIMEOUT_PATTERN", severity |-> "HIGH",
               message |-> ToString(OGet(patterns, "timeout_failures", 0)) \o " timeout failures detected",
               recommendation |-> "Check application response times, database performance, or increase timeout thresholds." ] >>
     ELSE <<>>)
    \o
    (IF OGet(patterns, "authentication_failures", 0) > 0
     THEN << [ type |-> "AUTH_PATTERN", severity |-> "HIGH",
               message |-> ToString(OGet(patterns, "authentication_failures", 0)) \o " authentication failures detected",
               recommendation |-> "Verify test credentials and authentication endpoints are working correctly." ] >>
     ELSE <<>>)
    \o
    (IF OGet(patterns, "connection_failures", 0) > 0
     THEN << [ type |-> "CONNECTION_PATTERN", severity |-> "CRITICAL",
               message |-> ToString(OGet(patterns, "connection_failures", 0)) \o " connection failures detected",
               recommendation |-> "Check network connectivity, service availability, and firewall rules." ] >>
     ELSE <<>>)
    \o
    (IF OGet(patterns, "null_pointer_failures", 0) > 0
     THEN << [ type |-> "NPE_PATTERN", severity |-> "MEDIUM",
               message |-> ToString(OGet(patterns, "null_pointer_failures", 0)) \o " null pointer exceptions detected",
               recommendation |-> "Review test data setup and null handling in step definitions." ] >>
     ELSE <<>>)

\* The four pattern checks, each appending at most one insight.
pattern_insights(patterns) ==
    (IF OGet(patterns, "timeout_failures", 0) > 2
     THEN << [ type |-> "TIMEOUT_PATTERN", severity |-> "HIGH",
               message |-> ToString(OGet(patterns, "timeout_failures", 0)) \o " timeout failures detected",
               recommendation |-> "Check application response times, database performance, or increase timeout thresholds." ] >>
     ELSE <<>>)
    \o
    (IF OGet(patterns, "authentication_failures", 0) > 0
     THEN << [ type |-> "AUTH_PATTERN", severity |-> "HIGH",
               message |-> ToString(OGet(patterns, "authentication_failures", 0)) \o " authentication failures detected",
               recommendation |-> "Verify test credentials and authentication endpoints are working correctly." ] >>
     ELSE <<>>)
    \o
    (IF OGet(patterns, "connection_failures", 0) > 0
     THEN << [ type |-> "CONNECTION_PATTERN", severity |-> "CRITICAL",
               message |-> ToString(OGet(patterns, "connection_failures", 0)) \o " connection failures detected",
               recommendation |-> "Check network connectivity, service availability, and firewall rules." ] >>
     ELSE <<>>)
    \o
    (IF OGet(patterns, "null_pointer_failures", 0) > 0
     THEN << [ type |-> "NPE_PATTERN", severity |-> "MEDIUM",
               message |-> ToString(OGet(patterns, "null_pointer_failures", 0)) \o " null pointer exceptions detected",
               recommendation |-> "Review test data setup and null handling in step definitions." ] >>
     ELSE <<>>)

\* _add_actionable_insights with the pattern checks outside the else branch.
_add_actionable_insights_patterns_always(report) ==
    LET summary == Get(report, "summary", EmptyDict)
        failed_count == Get(summary, "failedScenarios", 0)
        insights ==
            (IF failed_count = 0
             THEN << success_insight >>
             ELSE rate_insights(summary, failed_count))
            \o pattern_insights(Get(report, "failurePatternSummary", EmptyDict))
    IN  Put(report, "actionableInsights", insights)

_add_actionable_insights(report) ==
    LET summary == Get(report, "summary", EmptyDict)
        failed_count == Get(summary, "failedScenarios", 0)
        insights ==
            IF failed_count = 0
            THEN << success_insight >>
            ELSE rate_insights(summary, failed_count)
                 \o pattern_insights(Get(report, "failurePatternSummary", EmptyDict))
    IN  Put(report, "actionableInsights", insights)

(***************************************************************************)
(* FailureReportEnhancer._add_retry_suggestions                            *)
(***************************************************************************)
TransientKeywords ==
    { "timeout", "connection", "temporarily unavailable",
      "service unavailable", "network", "503", "504" }

\* any_keyword on the message as written, not lower-cased.
any_keyword_case_sensitive(failure) ==
    LET error_msg == Get(failure, "errorMessage", "")
    IN  \E keyword \in TransientKeywords : Contains(keyword, error_msg)

any_keyword(failure) ==
    LET error_msg == lower(Get(failure, "errorMessage", ""))
    IN  \E keyword \in TransientKeywords : Contains(keyword, error_msg)

\* any_keyword, looked up for the failures of the pool.
TransientOfPool == [f \in PoolFailures |-> any_keyword(f)]

is_transient(failure) ==
    IF failure \in PoolFailures THEN TransientOfPool[failure] ELSE any_keyword(failure)

retry_reason(transient) ==
    IF transient THEN "Transient failure detected"
    ELSE "Deterministic failure - requires fix"

retry_candidate(o) ==
    [ feature     |-> o.feature["featureName"],
      scenario    |-> o.failure["scenarioName"],
      line        |-> o.failure["line"],
      tags        |-> Get(o.failure, "tags", <<>>),
      shouldRetry |-> is_transient(o.failure),
      reason      |-> retry_reason(is_transient(o.failure)) ]

\* _add_retry_suggestions writing the verdict into the failure records too.
_add_retry_suggestions_annotating_failures(report) ==
    LET occ == Occurrences(report)
        features == Get(report, "features", <<>>)
        Annotated(feature) ==
            IF Has(feature, "failures")
            THEN Put(feature, "failures",
                     [j \in 1..Len(feature["failures"]) |->
                         Put(feature["failures"][j], "shouldRetry",
                             is_transient(feature["failures"][j]))])
            ELSE feature
        suggested == Put(report, "retrySuggestions",
                         [i \in 1..Len(occ) |-> retry_candidate(occ[i])])
    IN  IF Has(report, "features")
        THEN Put(suggested, "features", [i \in 1..Len(features) |-> Annotated(features[i])])
        ELSE suggested

_add_retry_suggestions(report) ==
    LET occ == Occurrences(report)
    IN  Put(report, "retrySuggestions",
            [i \in 1..Len(occ) |-> retry_candidate(occ[i])])

(***************************************************************************)
(* FailureReportEnhancer._link_serenity_artifacts                          *)
(***************************************************************************)
_link_serenity_artifacts(report, path) ==
    Put(report, "serenityArtifacts",
        [ screenshotsAvailable |-> TRUE,
          serenityReportPath   |-> path,
          note |-> "Screenshot linking requires Serenity JSON parsing" ])

(***************************************************************************)
(* FailureReportEnhancer.enhance, between loading and saving: the          *)
(* enhancement metadata, the four steps in order, the optional linker.     *)
(* path is "" when --serenity-report was not given (None, falsy).          *)
(***************************************************************************)
NoPath == ""

add_enhancement(report, now) ==
    Put(report, "enhancement", [enhancedAt |-> now, version |-> "1.0.0"])

\* links_artifacts without the os.path.exists test.
links_artifacts_path_only(path, path_exists) == path # NoPath

links_artifacts(path, path_exists) == path # NoPath /\ path_exists

enhance_report(report, now, path, path_exists) ==
    LET enhanced ==
            _add_retry_suggestions(
                _add_actionable_insights(
                    _categorize_errors(
                        _add_failure_patterns(
                            add_enhancement(report, now)))))
    IN  IF links_artifacts(path, path_exists)
        THEN _link_serenity_artifacts(enhanced, path)
        ELSE enhanced

(***************************************************************************)
(* generate-html-summary.py.  The HTML is kept as the list of fragments    *)
(* the code joins: a literal fragment, or one f-string with the values     *)
(* interpolated into its slots.  '\n'.join of no fragments is the empty    *)
(* string, which is the empty list here.                                   *)
(***************************************************************************)
Literal(s) == [literal |-> s]

\* d.get('duration') is None when the key is absent; a present value keeps
\* its JSON type, [number |-> n] or [string |-> s], since format_duration
\* divides it.
None == [none |-> TRUE]

\* f'{num/den:.1f}' for num >= 0: one decimal, ties to even.
format_1f(num, den) ==
    LET q == (num * 10) \div den
        r == (num * 10) % den
        tenths == IF 2 * r > den THEN q + 1
                  ELSE IF 2 * r < den THEN q
                  ELSE IF q % 2 = 0 THEN q ELSE q + 1
    IN  ToString(tenths \div 10) \o "." \o ToString(tenths % 10)

\* `ms / 1000` on a non-empty str raises TypeError.
raises_format_duration(ms) == Has(ms, "string") /\ ms["string"] # ""

format_duration(ms) ==
    IF ~Has(ms, "number") \/ ms["number"] = 0 THEN "N/A"
    ELSE IF ms["number"] < 60000 THEN format_1f(ms["number"], 1000) \o "s"
    ELSE IF ms["number"] < 3600000 THEN format_1f(ms["number"], 60000) \o "m"
    ELSE format_1f(ms["number"], 3600000) \o "h"

\* insight_block printing the lower-cased severity in the label too.
insight_block_lowered_label(insight) ==
    LET severity == lower(Get(insight, "severity", "INFO"))
    IN  [ class          |-> "insight " \o severity,
          type           |-> Get(insight, "type", "Unknown"),
          severity_class |-> "insight-severity " \o severity,
          severity       |-> severity,
          message        |-> Get(insight, "message", ""),
          recommendation |-> Get(insight, "recommendation", "") ]

insight_block(insight) ==
    LET severity == lower(Get(insight, "severity", "INFO"))
    IN  [ class          |-> "insight " \o severity,
          type           |-> Get(insight, "type", "Unknown"),
          severity_class |-> "insight-severity " \o severity,
          severity       |-> Get(insight, "severity", "INFO"),
          message        |-> Get(insight, "message", ""),
          recommendation |-> Get(insight, "recommendation", "") ]

generate_insights_section(report) ==
    LET insights == Get(report, "actionableInsights", <<>>)
    IN  IF Len(insights) = 0 THEN <<>>
        ELSE << Literal("<div class=\"insights\">"),
                Literal("<h2>Actionable Insights</h2>") >>
             \o [i \in 1..Len(insights) |-> insight_block(insights[i])]
             \o << Literal("</div>") >>

pattern_labels ==
    << [key |-> "timeout_failures",         value |-> "Timeout Failures"],
       [key |-> "assertion_failures",       value |-> "Assertion Failures"],
       [key |-> "connection_failures",      value |-> "Connection Failures"],
       [key |-> "authentication_failures",  value |-> "Authentication Failures"],
       [key |-> "data_validation_failures", value |-> "Data Validation Failures"],
       [key |-> "null_pointer_failures",    value |-> "Null Pointer Failures"],
       [key |-> "other_failures",           value |-> "Other Failures"] >>

is_letter(c) == upper_char(c) # c \/ lower_char(c) # c

\* key.replace('_', ' ').title()
RECURSIVE title_from(_, _)
title_from(s, after_letter) ==
    IF Len(s) = 0 THEN ""
    ELSE LET c == IF SubSeq(s, 1, 1) = "_" THEN " " ELSE SubSeq(s, 1, 1)
         IN  (IF after_letter THEN lower_char(c) ELSE upper_char(c))
             \o title_from(SubSeq(s, 2, Len(s)), is_letter(c))

pattern_card(entry) ==
    [ label |-> OGet(pattern_labels, entry.key, title_from(entry.key, FALSE)),
      count |-> entry.value ]

generate_patterns_section(report) ==
    LET patterns == Get(report, "failurePatternSummary", EmptyDict)
    IN  IF Len(patterns) = 0 THEN <<>>
        ELSE << Literal("<div class=\"patterns\">"),
                Literal("<h2>Failure Patterns</h2>"),
                Literal("<div class=\"pattern-grid\">") >>
             \o [i \in 1..Len(patterns) |-> pattern_card(patterns[i])]
             \o << Literal("</div></div>") >>

step_block(step) ==
    LET block == [ class   |-> "step " \o lower(Get(step, "status", "UNKNOWN")),
                   keyword |-> Get(step, "keyword", ""),
                   text    |-> Get(step, "text", "") ]
    IN  IF Get(step, "errorMessage", "") # ""
        THEN Put(block, "error", "Error: " \o step["errorMessage"])
        ELSE block

\* One failure-item: the header always, then the error-message, steps and
\* stacktrace sub-blocks, each only when its field is present and non-empty.
failure_block(o) ==
    LET failure == o.failure
        tags == Get(failure, "tags", <<>>)
        steps == Get(failure, "steps", <<>>)
        header ==
            [ title    |-> Get(failure, "scenarioName", "Unknown Scenario"),
              feature  |-> Get(o.feature, "featureName", "Unknown Feature"),
              line     |-> IF Has(failure, "line") THEN ToString(failure["line"]) ELSE "N/A",
              duration |-> format_duration(Get(failure, "duration", None)),
              tags     |-> [i \in 1..Len(tags) |-> "<span class=\"tag\">" \o tags[i] \o "</span>"] ]
        with_error ==
            IF Get(failure, "errorMessage", "") # ""
            THEN Put(header, "error_message", failure["errorMessage"])
            ELSE header
        with_steps ==
            IF Len(steps) > 0
            THEN Put(with_error, "steps", [i \in 1..Len(steps) |-> step_block(steps[i])])
            ELSE with_error
    IN  IF Get(failure, "stackTrace", "") # ""
        THEN Put(with_steps, "stacktrace", failure["stackTrace"])
        ELSE with_steps

\* generate_failures_section without the `if not failures_html` return.
generate_failures_section_unguarded(report) ==
    LET occ == Occurrences(report)
        failure_count == Len(occ)
    IN  << Literal("<div class=\"failures\"><h2>Failed Scenarios ("
                   \o ToString(failure_count) \o ")</h2>") >>
        \o [i \in 1..failure_count |-> failure_block(occ[i])]
        \o << Literal("</div>") >>

generate_failures_section(report) ==
    LET occ == Occurrences(report)
        failure_count == Len(occ)
    IN  IF failure_count = 0 THEN <<>>
        ELSE << Literal("<div class=\"failures\"><h2>Failed Scenarios ("
                        \o ToString(failure_count) \o ")</h2>") >>
             \o [i \in 1..failure_count |-> failure_block(occ[i])]
             \o << Literal("</div>") >>

\* HTML_TEMPLATE.format(...): the value of every slot.
html_content(report_data, now) ==
    LET metadata == Get(report_data, "metadata", EmptyDict)
        summary == Get(report_data, "summary", EmptyDict)
    IN  [ build_number      |-> Get(metadata, "buildNumber", "Unknown"),
          environment       |-> Get(metadata, "environment", "default"),
          duration          |-> format_duration(Get(metadata, "duration", None)),
          timestamp         |-> now,
          total_scenarios   |-> Get(summary, "totalScenarios", 0),
          passed_scenarios  |-> Get(summary, "passedScenarios", 0),
          failed_scenarios  |-> Get(summary, "failedScenarios", 0),
          skipped_scenarios |-> Get(summary, "skippedScenarios", 0),
          insights_section  |-> generate_insights_section(report_data),
          patterns_section  |-> generate_patterns_section(report_data),
          failures_section  |-> generate_failures_section(report_data) ]

\* The TypeError of format_duration, from the metadata or from a failure.
RaisesTypeError(report_data) ==
    \/ raises_format_duration(Get(Get(report_data, "metadata", EmptyDict), "duration", None))
    \/ \E i \in 1..Len(Occurrences(report_data)) :
          raises_format_duration(Get(Occurrences(report_data)[i].failure, "duration", None))

(***************************************************************************)
(* Files.                                                                  *)
(***************************************************************************)
Missing == [ kind |-> "missing" ]

Malformed == [ kind |-> "malformed" ]

\* Opened with mode 'w' and nothing written yet.
Truncated == [ kind |-> "empty" ]

JsonFile(doc) == [ kind |-> "json", doc |-> doc ]

HtmlFile(content) == [ kind |-> "html", content |-> content ]

SerenityDir == "target/site/serenity"

VARIABLES
    reportFile,            \* the test run's report, --input of the first run
    enhancedFile,          \* --output of the enhancer
    htmlFile,              \* --output of the renderer
    pc,                    \* where the running script is
    report,                \* the loaded document: <<>> or <<doc>>
    serenity_report_path,  \* self.serenity_report_path
    path_exists,           \* what os.path.exists answered
    runs,                  \* completed enhancer runs; the clock
    error                  \* the uncaught exception, "" when none

vars == << reportFile, enhancedFile, htmlFile, pc, report,
           serenity_report_path, path_exists, runs, error >>

Init ==
    /\ reportFile \in {Missing, Malformed} \cup { JsonFile(d) : d \in Reports }
    /\ enhancedFile = Missing
    /\ htmlFile = Missing
    /\ pc = "idle"
    /\ report = <<>>
    /\ serenity_report_path = NoPath
    /\ path_exists = FALSE
    /\ runs = 0
    /\ error = ""

\* The file both scripts are pointed at: the enhanced report once there is
\* one, the test run's report before.
InputFile == IF runs = 0 THEN reportFile ELSE enhancedFile

\* enhance(), lines 30-33, after __init__ stored the arguments.
EnhancerLoad ==
    /\ pc = "idle"
    /\ runs < MaxRuns
    /\ \E path \in {NoPath, SerenityDir} : serenity_report_path' = path
    /\ IF InputFile.kind = "json"
       THEN /\ report' = << InputFile.doc >>
            /\ pc' = "enhancer_loaded"
            /\ error' = error
       ELSE /\ report' = report
            /\ pc' = "enhancer_failed"
            /\ error' = IF InputFile.kind = "missing"
                        THEN "FileNotFoundError" ELSE "JSONDecodeError"
    /\ UNCHANGED << reportFile, enhancedFile, htmlFile, path_exists, runs >>

\* EnhancerEnhance with the output opened for writing before the steps run.
EnhancerEnhance_output_opened_first ==
    /\ pc = "enhancer_loaded"
    /\ \E ex \in (IF serenity_report_path = NoPath THEN {FALSE} ELSE BOOLEAN) :
          /\ path_exists' = ex
          /\ IF RaisesKeyError(report[1])
             THEN /\ pc' = "enhancer_failed"
                  /\ error' = "KeyError"
                  /\ report' = report
                  /\ enhancedFile' = Truncated
             ELSE /\ pc' = "enhancer_enhanced"
                  /\ error' = error
                  /\ report' = << enhance_report(report[1], runs + 1,
                                                 serenity_report_path, ex) >>
                  /\ enhancedFile' = enhancedFile
    /\ UNCHANGED << reportFile, htmlFile, serenity_report_path, runs >>

\* enhance(), lines 35-50.  os.path.exists is called only for a supplied
\* path (the `and` of line 49 short-circuits).
EnhancerEnhance ==
    /\ pc = "enhancer_loaded"
    /\ \E ex \in (IF serenity_report_path = NoPath THEN {FALSE} ELSE BOOLEAN) :
          /\ path_exists' = ex
          /\ IF RaisesKeyError(report[1])
             THEN /\ pc' = "enhancer_failed"
                  /\ error' = "KeyError"
                  /\ report' = report
             ELSE /\ pc' = "enhancer_enhanced"
                  /\ error' = error
                  /\ report' = << enhance_report(report[1], runs + 1,
                                                 serenity_report_path, ex) >>
    /\ UNCHANGED << reportFile, enhancedFile, htmlFile, serenity_report_path, runs >>

\* enhance(), lines 53-58.
EnhancerSave ==
    /\ pc = "enhancer_enhanced"
    /\ enhancedFile' = JsonFile(report[1])
    /\ pc' = "idle"
    /\ report' = <<>>
    /\ serenity_report_path' = NoPath
    /\ path_exists' = FALSE
    /\ runs' = runs + 1
    /\ UNCHANGED << reportFile, htmlFile, error >>

\* generate-html-summary.py main(), lines 617-619.
RendererLoad ==
    /\ pc = "idle"
    /\ IF InputFile.kind = "json"
       THEN /\ report' = << InputFile.doc >>
            /\ pc' = "renderer_loaded"
            /\ error' = error
       ELSE /\ report' = report
            /\ pc' = "renderer_failed"
            /\ error' = IF InputFile.kind = "missing"
                        THEN "FileNotFoundError" ELSE "JSONDecodeError"
    /\ UNCHANGED << reportFile, enhancedFile, htmlFile,
                    serenity_report_path, path_exists, runs >>

\* generate_html_report(), lines 588-607: format the template, then open
\* the output and write it.
GenerateHtmlReport ==
    /\ pc = "renderer_loaded"
    /\ IF RaisesTypeError(report[1])
       THEN /\ pc' = "renderer_failed"
            /\ error' = "TypeError"
            /\ htmlFile' = htmlFile
       ELSE /\ pc' = "renderer_done"
            /\ error' = error
            /\ htmlFile' = HtmlFile(html_content(report[1], runs))
    /\ UNCHANGED << reportFile, enhancedFile, report,
                    serenity_report_path, path_exists, runs >>

Next ==
    \/ EnhancerLoad
    \/ EnhancerEnhance
    \/ EnhancerSave
    \/ RendererLoad
    \/ GenerateHtmlReport

Spec == Init /\ [][Next]_vars

(***************************************************************************)
(* Properties.  InputFile.doc is the document the running script loaded:   *)
(* neither script writes its input, and runs changes only on saving.       *)
(***************************************************************************)
Enhanced == pc = "enhancer_enhanced"

Rendered == pc = "renderer_done"

Categories == { PatternKeys[i] : i \in 1..Len(PatternKeys) }

RECURSIVE SumOfLengths(_)
SumOfLengths(od) ==
    IF Len(od) = 0 THEN 0 ELSE Len(Head(od).value) + SumOfLengths(Tail(od))

\* The keyword rules of the seven categories, highest priority first; the
\* last one matches every failure.
CategoryRules ==
    << [ category |-> "timeout_failures", message |-> {"timeout"}, type |-> {"timeout"} ],
       [ category |-> "assertion_failures", message |-> {"assertion", "expected"}, type |-> {} ],
       [ category |-> "connection_failures", message |-> {"connection", "unable to connect"}, type |-> {} ],
       [ category |-> "authentication_failures", message |-> {"auth", "unauthorized", "401"}, type |-> {} ],
       [ category |-> "data_validation_failures", message |-> {"validation", "invalid"}, type |-> {} ],
       [ category |-> "null_pointer_failures", message |-> {"null"}, type |-> {"nullpointer"} ],
       [ category |-> "other_failures", message |-> {""}, type |-> {} ] >>

RuleMatches(rule, failure) ==
    \/ \E kw \in rule.message : Contains(kw, lower(Get(failure, "errorMessage", "")))
    \/ \E kw \in rule.type : Contains(kw, lower(Get(failure, "errorType", "")))

HighestPriority(failure) ==
    LET matching == {i \in 1..Len(CategoryRules) : RuleMatches(CategoryRules[i], failure)}
    IN  CategoryRules[CHOOSE i \in matching : \A j \in matching : i <= j].category

ExpectedCategory == [f \in PoolFailures |-> HighestPriority(f)]

\* C1: every failure of every feature is listed in exactly one of the seven
\* pattern categories, the first in priority order whose keywords match it,
\* and the sizes of the category lists sum to the number of failures.
C1_OneCategoryByPriority ==
    Enhanced =>
        LET occ == Occurrences(InputFile.doc)
            patterns == report[1]["failurePatterns"]
            Listed(k) == OGet(patterns, k, <<>>)
            CountIn(k, x) == Cardinality({j \in 1..Len(Listed(k)) : Listed(k)[j] = x})
            Copies(x) == Cardinality({j \in 1..Len(occ) : failure_info(occ[j]) = x})
        IN  /\ KeySet(patterns) \subseteq Categories
            /\ SumOfLengths(patterns) = Len(occ)
            /\ \A i \in 1..Len(occ) : \A k \in Categories :
                  CountIn(k, failure_info(occ[i])) =
                      IF k = ExpectedCategory[occ[i].failure]
                      THEN Copies(failure_info(occ[i])) ELSE 0

\* A message with both "timeout" and "invalid" is listed under
\* timeout_failures while another failure is under data_validation_failures.
C1_Witness ==
    /\ Enhanced
    /\ \E i \in 1..Len(Occurrences(InputFile.doc)) :
          /\ Occurrences(InputFile.doc)[i].failure = TimeoutInvalid
          /\ \E j \in 1..Len(OGet(report[1]["failurePatterns"], "timeout_failures", <<>>)) :
                OGet(report[1]["failurePatterns"], "timeout_failures", <<>>)[j]
                    = failure_info(Occurrences(InputFile.doc)[i])
    /\ "data_validation_failures" \in KeySet(report[1]["failurePatterns"])

\* C2: failurePatterns has no empty list, failurePatternSummary has the same
\* keys, and every count is the length of the list of its key.
C2_NoEmptyCategoryCountsAreLengths ==
    Enhanced =>
        LET patterns == report[1]["failurePatterns"]
            summary == report[1]["failurePatternSummary"]
        IN  /\ \A i \in 1..Len(patterns) : Len(patterns[i].value) > 0
            /\ Keys(summary) = Keys(patterns)
            /\ \A i \in 1..Len(summary) : summary[i].value = Len(patterns[i].value)

\* Some categories are listed and some are left out.
C2_Witness ==
    /\ Enhanced
    /\ Len(report[1]["failurePatterns"]) >= 2
    /\ Len(report[1]["failurePatterns"]) < Len(PatternKeys)
    /\ \E i \in 1..Len(report[1]["failurePatternSummary"]) :
          report[1]["failurePatternSummary"][i].value >= 2

InsightsOfType(doc, t) ==
    {i \in 1..Len(doc["actionableInsights"]) : doc["actionableInsights"][i].type = t}

HasInsight(doc, t, sev) ==
    \E i \in InsightsOfType(doc, t) : doc["actionableInsights"][i].severity = sev

FailedOf(doc) == Get(Get(doc, "summary", EmptyDict), "failedScenarios", 0)

TotalOf(doc) == Get(Get(doc, "summary", EmptyDict), "totalScenarios", 0)

\* C3: with failedScenarios > 0 and totalScenarios > 0 there is at most one
\* failure-rate insight: HIGH_FAILURE_RATE/CRITICAL iff the rate is above 50%,
\* MODERATE_FAILURE_RATE/HIGH iff it is above 20% and at most 50%, none iff
\* it is at most 20%; 6/10 is CRITICAL, 5/10 and 3/10 are HIGH, 2/10 and 1/10
\* give neither.
C3_FailureRateInsight ==
    (Enhanced /\ FailedOf(InputFile.doc) > 0 /\ TotalOf(InputFile.doc) > 0) =>
        LET f == FailedOf(InputFile.doc)
            t == TotalOf(InputFile.doc)
            high == InsightsOfType(report[1], "HIGH_FAILURE_RATE")
            moderate == InsightsOfType(report[1], "MODERATE_FAILURE_RATE")
        IN  /\ Cardinality(high) + Cardinality(moderate) <= 1
            /\ HasInsight(report[1], "HIGH_FAILURE_RATE", "CRITICAL") <=> 100 * f > 50 * t
            /\ high # {} => HasInsight(report[1], "HIGH_FAILURE_RATE", "CRITICAL")
            /\ HasInsight(report[1], "MODERATE_FAILURE_RATE", "HIGH")
                  <=> (100 * f > 20 * t /\ 100 * f <= 50 * t)
            /\ moderate # {} => HasInsight(report[1], "MODERATE_FAILURE_RATE", "HIGH")
            /\ (high = {} /\ moderate = {}) <=> 100 * f <= 20 * t
            /\ (f = 6 /\ t = 10) => high # {}
            /\ (f \in {3, 5} /\ t = 10) => moderate # {}
            /\ (f \in {1, 2} /\ t = 10) => (high = {} /\ moderate = {})

\* Exactly 50%: the HIGH insight, first in the list.
C3_Witness ==
    /\ Enhanced
    /\ FailedOf(InputFile.doc) = 5
    /\ TotalOf(InputFile.doc) = 10
    /\ Len(report[1]["actionableInsights"]) >= 1
    /\ report[1]["actionableInsights"][1].type = "MODERATE_FAILURE_RATE"
    /\ report[1]["actionableInsights"][1].message = "50.0% of tests failed (5/10)"

\* C4: with failedScenarios 0 or absent, actionableInsights is exactly one
\* SUCCESS/INFO record, whatever the features hold.
C4_ZeroFailedOnlySuccess ==
    (Enhanced /\ FailedOf(InputFile.doc) = 0) =>
        /\ Len(report[1]["actionableInsights"]) = 1
        /\ report[1]["actionableInsights"][1].type = "SUCCESS"
        /\ report[1]["actionableInsights"][1].severity = "INFO"

\* failedScenarios is 0 while the features hold authentication, connection,
\* null-pointer and more than two timeout failures.
C4_Witness ==
    /\ Enhanced
    /\ Has(Get(InputFile.doc, "summary", EmptyDict), "failedScenarios")
    /\ FailedOf(InputFile.doc) = 0
    /\ OGet(report[1]["failurePatternSummary"], "timeout_failures", 0) > 2
    /\ OGet(report[1]["failurePatternSummary"], "connection_failures", 0) > 0
    /\ Len(report[1]["actionableInsights"]) = 1

\* The summary is absent, and so is failedScenarios, with an
\* authentication failure among the features.
C4_WitnessAbsent ==
    /\ Enhanced
    /\ ~Has(InputFile.doc, "summary")
    /\ OGet(report[1]["failurePatternSummary"], "authentication_failures", 0) > 0
    /\ report[1]["actionableInsights"][1].type = "SUCCESS"

RetryKeywords ==
    { "timeout", "connection", "temporarily unavailable", "service unavailable",
      "network", "503", "504" }

ExpectedRetry ==
    [f \in PoolFailures |->
        \E kw \in RetryKeywords : Contains(kw, lower(Get(f, "errorMessage", "")))]

\* C5: retrySuggestions has one record per failure, in traversal order;
\* shouldRetry is true iff the lower-cased message contains a transient
\* keyword, and reason is "Transient failure detected" exactly then and
\* "Deterministic failure - requires fix" otherwise.
C5_RetrySuggestions ==
    Enhanced =>
        LET occ == Occurrences(InputFile.doc)
            rs == report[1]["retrySuggestions"]
        IN  /\ Len(rs) = Len(occ)
            /\ \A i \in 1..Len(occ) :
                  /\ rs[i].feature = occ[i].feature["featureName"]
                  /\ rs[i].scenario = occ[i].failure["scenarioName"]
                  /\ rs[i].line = occ[i].failure["line"]
                  /\ rs[i].shouldRetry = ExpectedRetry[occ[i].failure]
                  /\ rs[i].shouldRetry <=> rs[i].reason = "Transient failure detected"
                  /\ ~rs[i].shouldRetry <=> rs[i].reason = "Deterministic failure - requires fix"
                  /\ occ[i].failure["scenarioName"] = "Ping" => rs[i].shouldRetry
                  /\ occ[i].failure["scenarioName"] = "Delete booking" => ~rs[i].shouldRetry

\* Two features: "Expected true but got false" of the first is not to be
\* retried, "Connection timed out after 503" of the second is.
C5_Witness ==
    /\ Enhanced
    /\ Len(Get(InputFile.doc, "features", <<>>)) = 2
    /\ Len(report[1]["retrySuggestions"]) = 4
    /\ report[1]["retrySuggestions"][1].scenario = "Delete booking"
    /\ ~report[1]["retrySuggestions"][1].shouldRetry
    /\ report[1]["retrySuggestions"][3].scenario = "Ping"
    /\ report[1]["retrySuggestions"][3].shouldRetry

ClassificationFields ==
    { "failurePatterns", "failurePatternSummary", "errorCategories",
      "errorCategorySummary", "actionableInsights", "retrySuggestions" }

\* C6: enhancing the output of a previous enhance yields the same six
\* classification fields; of the enhancement record only enhancedAt differs.
\* (enhancedFile still holds the previous output until the run saves.)
C6_EnhanceTwiceSameClassification ==
    (Enhanced /\ runs >= 1) =>
        /\ \A k \in ClassificationFields : report[1][k] = enhancedFile.doc[k]
        /\ report[1]["enhancement"].version = enhancedFile.doc["enhancement"].version
        /\ \A k \in DOMAIN enhancedFile.doc :
              k \notin {"enhancement", "serenityArtifacts"} => Has(report[1], k)

\* The second run of a report with several failures, stamped later.
C6_Witness ==
    /\ Enhanced
    /\ runs = 1
    /\ Len(report[1]["retrySuggestions"]) >= 3
    /\ Len(report[1]["failurePatterns"]) >= 2
    /\ Len(report[1]["actionableInsights"]) >= 2
    /\ report[1]["enhancement"].enhancedAt # enhancedFile.doc["enhancement"].enhancedAt

\* C7: an output file is opened only after the input was loaded and every
\* step completed: a run that raised has left its output file unopened, the
\* enhanced report exists only once a run has saved, the HTML only once the
\* renderer is done.
C7_NoOutputBeforeSuccess ==
    /\ pc = "enhancer_failed" => (enhancedFile = Missing /\ error # "")
    /\ pc = "renderer_failed" => (htmlFile = Missing /\ error # "")
    /\ pc \in {"enhancer_loaded", "enhancer_enhanced"} /\ runs = 0 => enhancedFile = Missing
    /\ enhancedFile # Missing =>
          (runs >= 1 /\ enhancedFile.kind = "json"
             /\ ClassificationFields \subseteq DOMAIN enhancedFile.doc)
    /\ htmlFile # Missing => (pc = "renderer_done" /\ htmlFile.kind = "html")

\* A failure without scenarioName: the first step raised after the load.
C7_Witness ==
    /\ pc = "enhancer_failed"
    /\ error = "KeyError"
    /\ Len(report) = 1
    /\ \E i \in 1..Len(Occurrences(report[1])) :
          ~Has(Occurrences(report[1])[i].failure, "scenarioName")
    /\ enhancedFile = Missing

\* The renderer raising while it formats the template.
C7_WitnessRenderer ==
    /\ pc = "renderer_failed"
    /\ error = "TypeError"
    /\ runs >= 1
    /\ htmlFile = Missing

NoFailureAnywhere(doc) ==
    \A i \in 1..Len(Get(doc, "features", <<>>)) :
        Len(Get(doc["features"][i], "failures", <<>>)) = 0

\* C8: each of the three sections is the empty string exactly when its own
\* data is absent or empty: insights iff actionableInsights is, patterns iff
\* failurePatternSummary is, failures iff no feature has a failure.
C8_SectionsOmittedIndependently ==
    Rendered =>
        LET doc == InputFile.doc
            html == htmlFile.content
        IN  /\ Len(html.insights_section) = 0
                  <=> Len(Get(doc, "actionableInsights", <<>>)) = 0
            /\ Len(html.patterns_section) = 0
                  <=> Len(Get(doc, "failurePatternSummary", <<>>)) = 0
            /\ Len(html.failures_section) = 0 <=> NoFailureAnywhere(doc)

\* No failure and no failures section, beside an insights and a patterns
\* section.
C8_Witness ==
    /\ Rendered
    /\ Has(InputFile.doc, "features")
    /\ Len(htmlFile.content.failures_section) = 0
    /\ Len(htmlFile.content.insights_section) > 0
    /\ Len(htmlFile.content.patterns_section) > 0

\* A failures section beside no insights and no patterns section.
C8_WitnessFailuresOnly ==
    /\ Rendered
    /\ Len(htmlFile.content.failures_section) > 0
    /\ Len(htmlFile.content.insights_section) = 0
    /\ Len(htmlFile.content.patterns_section) = 0

\* C9: a non-empty actionableInsights renders as one block per entry, in
\* list order, each with the entry's type, severity, message and
\* recommendation (severity INFO and type Unknown when absent).
C9_OneInsightBlockPerEntry ==
    (Rendered /\ Len(Get(InputFile.doc, "actionableInsights", <<>>)) > 0) =>
        LET insights == InputFile.doc["actionableInsights"]
            section == htmlFile.content.insights_section
            blocks == {j \in 1..Len(section) : ~Has(section[j], "literal")}
        IN  /\ Cardinality(blocks) = Len(insights)
            /\ blocks = { i + 2 : i \in 1..Len(insights) }
            /\ \A i \in 1..Len(insights) :
                  /\ section[i + 2].type = Get(insights[i], "type", "Unknown")
                  /\ section[i + 2].severity = Get(insights[i], "severity", "INFO")
                  /\ section[i + 2].message = Get(insights[i], "message", "")
                  /\ section[i + 2].recommendation = Get(insights[i], "recommendation", "")

\* Two insights of an enhanced report, rendered in their order.
C9_Witness ==
    /\ Rendered
    /\ runs >= 1
    /\ Len(InputFile.doc["actionableInsights"]) >= 3
    /\ htmlFile.content.insights_section[3].type = "HIGH_FAILURE_RATE"
    /\ htmlFile.content.insights_section[3].severity = "CRITICAL"
    /\ htmlFile.content.insights_section[4].type = "TIMEOUT_PATTERN"

\* An insight without type and severity, rendered with the defaults.
C9_WitnessDefaults ==
    /\ Rendered
    /\ Len(Get(InputFile.doc, "actionableInsights", <<>>)) >= 2
    /\ ~Has(InputFile.doc["actionableInsights"][1], "type")
    /\ htmlFile.content.insights_section[3].type = "Unknown"
    /\ htmlFile.content.insights_section[3].severity = "INFO"

OptionalFields ==
    { "errorMessage", "errorType", "tags", "steps", "stackTrace", "duration" }

LacksRequiredField(doc) ==
    \E i \in 1..Len(Occurrences(doc)) :
        \/ "featureName" \notin DOMAIN Occurrences(doc)[i].feature
        \/ {"scenarioName", "line"} \ DOMAIN Occurrences(doc)[i].failure # {}

HasStringDuration(doc) ==
    \E i \in 1..Len(Occurrences(doc)) :
        /\ "duration" \in DOMAIN Occurrences(doc)[i].failure
        /\ "string" \in DOMAIN Occurrences(doc)[i].failure["duration"]

\* C10: an absent optional field is never fatal.  A run fails only on a
\* file that does not load, on a missing featureName, scenarioName or line
\* (enhancer) or on a duration that is no number (renderer); an absent
\* errorMessage, errorType or tags is replaced by its default, and a failure
\* without steps, stackTrace or tags is rendered without those sub-blocks.
C10_AbsentOptionalFieldNotFatal ==
    /\ pc = "enhancer_failed" =>
          (InputFile.kind # "json" \/ LacksRequiredField(InputFile.doc))
    /\ pc = "renderer_failed" =>
          (InputFile.kind # "json" \/ HasStringDuration(InputFile.doc))
    /\ Enhanced =>
          LET occ == Occurrences(InputFile.doc)
          IN  \A i \in 1..Len(occ) :
                /\ ~Has(occ[i].failure, "tags") => report[1]["retrySuggestions"][i].tags = <<>>
                /\ ~Has(occ[i].failure, "errorMessage") =>
                      ~report[1]["retrySuggestions"][i].shouldRetry
                /\ ~Has(occ[i].failure, "errorType") =>
                      "UnknownError" \in KeySet(report[1]["errorCategories"])
    /\ Rendered =>
          LET occ == Occurrences(InputFile.doc)
              section == htmlFile.content.failures_section
          IN  \A i \in 1..Len(occ) :
                /\ ~Has(occ[i].failure, "steps") => ~Has(section[i + 1], "steps")
                /\ ~Has(occ[i].failure, "stackTrace") => ~Has(section[i + 1], "stacktrace")
                /\ ~Has(occ[i].failure, "tags") => Len(section[i + 1].tags) = 0
                /\ ~Has(occ[i].failure, "errorMessage") => ~Has(section[i + 1], "error_message")
                /\ ~Has(occ[i].failure, "duration") => section[i + 1].duration = "N/A"

\* An enhanced report without summary, with a feature without failures and
\* a failure that has none of the optional fields, rendered to the end.
C10_Witness ==
    /\ Rendered
    /\ runs >= 1
    /\ ~Has(InputFile.doc, "summary")
    /\ \E i \in 1..Len(Get(InputFile.doc, "features", <<>>)) :
          ~Has(InputFile.doc["features"][i], "failures")
    /\ \E i \in 1..Len(Occurrences(InputFile.doc)) :
          /\ DOMAIN Occurrences(InputFile.doc)[i].failure \cap OptionalFields = {}
          /\ ~Has(htmlFile.content.failures_section[i + 1], "steps")

\* A report without features and without summary, enhanced and rendered.
C10_WitnessNoFeatures ==
    /\ Rendered
    /\ runs >= 1
    /\ ~Has(InputFile.doc, "features")
    /\ ~Has(InputFile.doc, "summary")

\* The [type, severity] of every insight, in list order.
InsightKinds(doc) ==
    [i \in 1..Len(doc["actionableInsights"]) |->
        [ type     |-> doc["actionableInsights"][i].type,
          severity |-> doc["actionableInsights"][i].severity ]]

Kind(t, sev) == [type |-> t, severity |-> sev]

When(cond, kind) == IF cond THEN << kind >> ELSE <<>>

CountOf(doc, category) == OGet(doc["failurePatternSummary"], category, 0)

\* C11: with failedScenarios > 0, actionableInsights is exactly, in this
\* order, the rate insight (if any), TIMEOUT_PATTERN/HIGH iff more than two
\* timeout failures, AUTH_PATTERN/HIGH iff any authentication failure,
\* CONNECTION_PATTERN/CRITICAL iff any connection failure and
\* NPE_PATTERN/MEDIUM iff any null-pointer failure; exactly two timeout
\* failures give no TIMEOUT_PATTERN.
C11_InsightsInFixedOrder ==
    (Enhanced /\ FailedOf(InputFile.doc) > 0) =>
        LET f == FailedOf(InputFile.doc)
            t == TotalOf(InputFile.doc)
            doc == report[1]
        IN  /\ InsightKinds(doc) =
                   When(t > 0 /\ 100 * f > 50 * t, Kind("HIGH_FAILURE_RATE", "CRITICAL"))
                   \o When(t > 0 /\ 100 * f > 20 * t /\ 100 * f <= 50 * t,
                           Kind("MODERATE_FAILURE_RATE", "HIGH"))
                   \o When(CountOf(doc, "timeout_failures") > 2, Kind("TIMEOUT_PATTERN", "HIGH"))
                   \o When(CountOf(doc, "authentication_failures") > 0, Kind("AUTH_PATTERN", "HIGH"))
                   \o When(CountOf(doc, "connection_failures") > 0,
                           Kind("CONNECTION_PATTERN", "CRITICAL"))
                   \o When(CountOf(doc, "null_pointer_failures") > 0, Kind("NPE_PATTERN", "MEDIUM"))
            /\ CountOf(doc, "timeout_failures") = 2 =>
                   InsightsOfType(doc, "TIMEOUT_PATTERN") = {}

\* Exactly two timeout failures beside an authentication failure: a rate
\* insight, then AUTH_PATTERN, and no TIMEOUT_PATTERN.
C11_Witness ==
    /\ Enhanced
    /\ FailedOf(InputFile.doc) > 0
    /\ CountOf(report[1], "timeout_failures") = 2
    /\ InsightKinds(report[1]) =
           << Kind("MODERATE_FAILURE_RATE", "HIGH"), Kind("AUTH_PATTERN", "HIGH") >>

\* Three timeout failures and a connection failure co-occur with the rate
\* insight.
C11_WitnessAdditive ==
    /\ Enhanced
    /\ CountOf(report[1], "timeout_failures") = 3
    /\ InsightKinds(report[1]) =
           << Kind("HIGH_FAILURE_RATE", "CRITICAL"), Kind("TIMEOUT_PATTERN", "HIGH"),
              Kind("CONNECTION_PATTERN", "CRITICAL") >>

\* The keywords of the claim's five rules, in priority order.
ClaimKeywords ==
    << {"timeout"}, {"assertion", "expected"}, {"connection", "unable to connect"},
       {"auth", "unauthorized", "401"}, {"validation", "invalid"} >>

ClaimCategories ==
    << "timeout_failures", "assertion_failures", "connection_failures",
       "authentication_failures", "data_validation_failures" >>

\* For every failure of the pool and every rule: does a keyword of the rule
\* occur in the lower-cased message, does one occur in the lower-cased type.
FieldMatches ==
    [f \in PoolFailures |->
        [r \in 1..Len(ClaimKeywords) |->
            [ message |-> \E kw \in ClaimKeywords[r] :
                              Contains(kw, lower(Get(f, "errorMessage", ""))),
              type    |-> \E kw \in ClaimKeywords[r] :
                              Contains(kw, lower(Get(f, "errorType", ""))) ]]]

ListedUnder(doc, o, category) ==
    \E j \in 1..Len(OGet(doc["failurePatterns"], category, <<>>)) :
        OGet(doc["failurePatterns"], category, <<>>)[j] = failure_info(o)

EitherField(f, r) == FieldMatches[f][r].message \/ FieldMatches[f][r].type

MessageOnly(f, r) == FieldMatches[f][r].message

\* C12 as stated: every rule is evaluated against the message and the type,
\* so a failure with no timeout keyword is listed under the first of
\* assertion, connection, authentication and data validation that has a
\* keyword in either field.
C12_EveryRuleOnEitherField ==
    Enhanced =>
        \A i \in 1..Len(Occurrences(InputFile.doc)) :
            LET o == Occurrences(InputFile.doc)[i]
                f == o.failure
            IN  ~EitherField(f, 1) =>
                    \A r \in 2..5 :
                        (EitherField(f, r) /\ \A q \in 2..(r - 1) : ~EitherField(f, q))
                            => ListedUnder(report[1], o, ClaimCategories[r])

\* C12, amended: the timeout rule is evaluated against the message and the
\* type; the assertion, connection, authentication and data-validation
\* rules against the message only.  A failure is listed under
\* timeout_failures iff "timeout" is in either field, and otherwise under
\* the first of the four whose keyword is in its message, and under none of
\* them when its message has no such keyword, whatever its type.
C12_TypeOnlyForTimeout ==
    Enhanced =>
        \A i \in 1..Len(Occurrences(InputFile.doc)) :
            LET o == Occurrences(InputFile.doc)[i]
                f == o.failure
            IN  /\ ListedUnder(report[1], o, ClaimCategories[1]) <=> EitherField(f, 1)
                /\ ~EitherField(f, 1) =>
                       \A r \in 2..5 :
                           ListedUnder(report[1], o, ClaimCategories[r])
                               <=> (MessageOnly(f, r) /\ \A q \in 2..(r - 1) : ~MessageOnly(f, q))

\* An AssertionError whose message has no keyword is listed under
\* other_failures, beside a failure listed under timeout_failures for its
\* type alone.
C12_Witness ==
    /\ Enhanced
    /\ \E i \in 1..Len(Occurrences(InputFile.doc)) :
          LET o == Occurrences(InputFile.doc)[i]
          IN  /\ Get(o.failure, "errorType", "") = "AssertionError"
              /\ FieldMatches[o.failure][2].type
              /\ \A r \in 1..5 : ~FieldMatches[o.failure][r].message
              /\ ListedUnder(report[1], o, "other_failures")
    /\ \E i \in 1..Len(Occurrences(InputFile.doc)) :
          LET o == Occurrences(InputFile.doc)[i]
          IN  /\ FieldMatches[o.failure][1].type
              /\ ~FieldMatches[o.failure][1].message
              /\ ListedUnder(report[1], o, "timeout_failures")

\* The literal errorType of a failure, or the label for an absent one.
LiteralType(failure) ==
    IF Has(failure, "errorType") THEN failure["errorType"] ELSE "UnknownError"

\* The positions, in traversal order, of the failures of one type.
PositionsOfType(occ, t) == {i \in 1..Len(occ) : LiteralType(occ[i].failure) = t}

FirstPosition(occ, t) ==
    CHOOSE i \in PositionsOfType(occ, t) : \A j \in PositionsOfType(occ, t) : i <= j

RECURSIVE SumOfValues(_)
SumOfValues(od) ==
    IF Len(od) = 0 THEN 0 ELSE Head(od).value + SumOfValues(Tail(od))

\* C13: errorCategories groups every failure under its literal errorType
\* (UnknownError when absent): one key per type, keys in first-seen
\* traversal order, the occurrences of a key in traversal order with their
\* feature, scenario and message; errorCategorySummary has the same keys,
\* each count is the length of the key's list, and the counts sum to the
\* number of failures.
C13_GroupedByLiteralErrorType ==
    Enhanced =>
        LET occ == Occurrences(InputFile.doc)
            cats == report[1]["errorCategories"]
            summary == report[1]["errorCategorySummary"]
        IN  /\ KeySet(cats) = { LiteralType(occ[i].failure) : i \in 1..Len(occ) }
            /\ Cardinality(KeySet(cats)) = Len(cats)
            /\ \A a, b \in 1..Len(cats) :
                  a < b => FirstPosition(occ, cats[a].key) < FirstPosition(occ, cats[b].key)
            /\ \A a \in 1..Len(cats) :
                  LET pos == PositionsOfType(occ, cats[a].key)
                  IN  /\ Len(cats[a].value) = Cardinality(pos)
                      /\ \A i \in pos :
                            cats[a].value[Cardinality({j \in pos : j <= i})] =
                                [ feature  |-> occ[i].feature["featureName"],
                                  scenario |-> occ[i].failure["scenarioName"],
                                  message  |-> IF Has(occ[i].failure, "errorMessage")
                                               THEN occ[i].failure["errorMessage"] ELSE "" ]
            /\ Keys(summary) = Keys(cats)
            /\ \A a \in 1..Len(cats) : summary[a].value = Len(cats[a].value)
            /\ SumOfValues(summary) = Len(occ)

\* Two failures of one errorType listed together although their pattern
\* categories differ, in a report that also has failures without errorType,
\* whose key comes after the first-seen AssertionError.
C13_Witness ==
    /\ Enhanced
    /\ Len(report[1]["errorCategories"]) >= 3
    /\ report[1]["errorCategories"][1].key = "AssertionError"
    /\ report[1]["errorCategories"][2].key = "UnknownError"
    /\ Len(report[1]["errorCategories"][1].value) = 2
    /\ report[1]["errorCategories"][1].value[1].scenario = "Delete booking"
    /\ report[1]["errorCategories"][1].value[2].scenario = "Update booking"
    /\ "assertion_failures" \in KeySet(report[1]["failurePatterns"])
    /\ "data_validation_failures" \in KeySet(report[1]["failurePatterns"])

\* C14: the enhanced report gains the serenityArtifacts record (the supplied
\* path, screenshotsAvailable = true) iff a Serenity report path was
\* supplied and exists; otherwise enhance adds no serenityArtifacts field
\* (the report has one only if its input had it, unchanged) and the run
\* still completes with every derived field.
C14_LinkerIffPathSuppliedAndExists ==
    Enhanced =>
        LET supplied == serenity_report_path # ""
            doc == report[1]
        IN  /\ (supplied /\ path_exists) =>
                  /\ Has(doc, "serenityArtifacts")
                  /\ doc["serenityArtifacts"].serenityReportPath = serenity_report_path
                  /\ doc["serenityArtifacts"].screenshotsAvailable = TRUE
            /\ ~(supplied /\ path_exists) =>
                  /\ Has(doc, "serenityArtifacts") <=> Has(InputFile.doc, "serenityArtifacts")
                  /\ Has(doc, "serenityArtifacts") =>
                        doc["serenityArtifacts"] = InputFile.doc["serenityArtifacts"]
                  /\ error = ""
                  /\ ClassificationFields \cup {"enhancement"} \subseteq DOMAIN doc

\* A supplied path that does not exist: the run completes and the report
\* has no serenityArtifacts.
C14_Witness ==
    /\ Enhanced
    /\ serenity_report_path = SerenityDir
    /\ ~path_exists
    /\ ~Has(report[1], "serenityArtifacts")
    /\ Len(report[1]["retrySuggestions"]) > 0

\* A supplied path that exists: the record is added to a report that had
\* none.
C14_WitnessLinked ==
    /\ Enhanced
    /\ serenity_report_path = SerenityDir
    /\ path_exists
    /\ ~Has(InputFile.doc, "serenityArtifacts")
    /\ report[1]["serenityArtifacts"].serenityReportPath = SerenityDir

\* No path supplied: the record an earlier run left is carried over as is.
C14_WitnessCarriedOver ==
    /\ Enhanced
    /\ serenity_report_path = NoPath
    /\ Has(report[1], "serenityArtifacts")

\* The top-level keys enhance assigns.
WrittenKeys ==
    { "enhancement", "failurePatterns", "failurePatternSummary", "errorCategories",
      "errorCategorySummary", "actionableInsights", "retrySuggestions",
      "serenityArtifacts" }

\* C15: enhance adds or overwrites only enhancement, the six derived fields
\* and (conditionally) serenityArtifacts: every other top-level key of the
\* input (metadata, summary, features with every failure and step record,
\* and any key the enhancer does not know) is in the output with the value
\* it had, the output has no key beyond those of the input and the written
\* ones, and so has the file every completed run saved.
C15_EnhanceFrame ==
    /\ Enhanced =>
          /\ \A k \in DOMAIN InputFile.doc \ WrittenKeys :
                Has(report[1], k) /\ report[1][k] = InputFile.doc[k]
          /\ DOMAIN report[1] \subseteq DOMAIN InputFile.doc \cup WrittenKeys
    /\ (pc = "idle" /\ runs >= 1 /\ reportFile.kind = "json") =>
          /\ \A k \in DOMAIN reportFile.doc \ WrittenKeys :
                Has(enhancedFile.doc, k) /\ enhancedFile.doc[k] = reportFile.doc[k]
          /\ DOMAIN enhancedFile.doc \subseteq DOMAIN reportFile.doc \cup WrittenKeys

\* A report with failures that have steps and tags, a summary and metadata,
\* enhanced and saved.
C15_Witness ==
    /\ runs >= 1
    /\ enhancedFile.kind = "json"
    /\ {"metadata", "summary", "features"} \subseteq DOMAIN enhancedFile.doc
    /\ \E i \in 1..Len(Occurrences(enhancedFile.doc)) :
          /\ Has(Occurrences(enhancedFile.doc)[i].failure, "steps")
          /\ Len(Occurrences(enhancedFile.doc)[i].failure["steps"]) > 0
    /\ Len(enhancedFile.doc["retrySuggestions"]) > 0

\* A top-level key the enhancer does not know, kept in the enhanced report.
C15_WitnessOtherKey ==
    /\ Enhanced
    /\ Has(InputFile.doc, "buildUrl")
    /\ report[1]["buildUrl"] = "https://ci.example/job/42"

RateTypes == {"HIGH_FAILURE_RATE", "MODERATE_FAILURE_RATE"}

\* C16: with failedScenarios > 0 and totalScenarios 0 or absent, the run
\* raises nothing and actionableInsights has no failure-rate insight; the
\* pattern insights are there as usual, so the list is empty when no
\* pattern threshold is reached.
C16_NoRateInsightWithoutTotal ==
    (Enhanced /\ FailedOf(InputFile.doc) > 0 /\ TotalOf(InputFile.doc) = 0) =>
        LET doc == report[1]
            insights == doc["actionableInsights"]
            NoPattern ==
                /\ CountOf(doc, "timeout_failures") <= 2
                /\ CountOf(doc, "authentication_failures") = 0
                /\ CountOf(doc, "connection_failures") = 0
                /\ CountOf(doc, "null_pointer_failures") = 0
        IN  /\ error = ""
            /\ \A i \in 1..Len(insights) : insights[i].type \notin RateTypes
            /\ InsightsOfType(doc, "TIMEOUT_PATTERN") # {} <=> CountOf(doc, "timeout_failures") > 2
            /\ InsightsOfType(doc, "AUTH_PATTERN") # {} <=> CountOf(doc, "authentication_failures") > 0
            /\ InsightsOfType(doc, "CONNECTION_PATTERN") # {} <=> CountOf(doc, "connection_failures") > 0
            /\ InsightsOfType(doc, "NPE_PATTERN") # {} <=> CountOf(doc, "null_pointer_failures") > 0
            /\ Len(insights) = 0 <=> NoPattern

\* totalScenarios is 0 with two failed scenarios: only the pattern insights.
C16_Witness ==
    /\ Enhanced
    /\ Has(InputFile.doc, "summary")
    /\ Has(InputFile.doc["summary"], "totalScenarios")
    /\ InputFile.doc["summary"]["totalScenarios"] = 0
    /\ FailedOf(InputFile.doc) = 2
    /\ InsightKinds(report[1]) =
           << Kind("AUTH_PATTERN", "HIGH"), Kind("NPE_PATTERN", "MEDIUM") >>

\* totalScenarios is absent and no pattern threshold is reached: the list
\* is empty although there are failures.
C16_WitnessEmpty ==
    /\ Enhanced
    /\ Has(InputFile.doc, "summary")
    /\ ~Has(InputFile.doc["summary"], "totalScenarios")
    /\ FailedOf(InputFile.doc) > 0
    /\ Len(report[1]["retrySuggestions"]) > 0
    /\ Len(report[1]["actionableInsights"]) = 0

====
